---------------------------- MODULE Spec2Model ----------------------------
(***************************************************************************)
(* A model of scraper.py: the per-page loop of extract_exercises_from_pdf, *)
(* the label locator find_exercise_numbers, the boundary resolver          *)
(* extract_individual_exercises and the visual fallback                    *)
(* extract_exercises_visual.                                               *)
(*                                                                         *)
(* Pixels are not modelled.  A page is its shape (height, width), its text *)
(* layer (the spans in traversal order, each a text and the y0 of its      *)
(* bbox), and the row indices the two peak detectors return on its pixels: *)
(* staff (detect_staff_regions) and peaks (find_peaks of the fallback).    *)
(* A text is the sequence of the code points of its characters ("No. 1" is *)
(* <<78, 111, 46, 32, 49>>).  The positions of the text layer are floats:   *)
(* y0 of a span and y_position of a label are given in quarters (y0 = 201   *)
(* is 50.25 points, y_position = 603 is 150.75 pixels), on which the float *)
(* product y0 * 3.0 is exact.  Rows of the pixel array (exercise_y, top,    *)
(* bottom, staff regions, peaks, page height) are whole pixels.  An image  *)
(* written to disk is described by the page and the row/column range it    *)
(* was sliced from.  An exception that nothing catches ends the program:    *)
(* pc is "raised" and exception holds its name.                            *)
(***************************************************************************)
EXTENDS Integers, Sequences, FiniteSets, TLC

VARIABLES doc_len, page_num, pc, page, exercise_positions, crops, files, out,
          exception

vars == <<doc_len, page_num, pc, page, exercise_positions, crops, files, out,
          exception>>

-----------------------------------------------------------------------------
(* Bounds of the model *)

MaxPages == 2

MaxSpans == 3

MaxDocSpans == 2

MaxLabels == 3

-----------------------------------------------------------------------------
(* Arithmetic helpers: Python's max, min on two or more integers *)

Max(a, b) == IF a >= b THEN a ELSE b

Min(a, b) == IF a <= b THEN a ELSE b

SetMax(S) == CHOOSE x \in S : \A y \in S : y <= x

SetMin(S) == CHOOSE x \in S : \A y \in S : x <= y

SeqRange(s) == {s[k] : k \in 1..Len(s)}

-----------------------------------------------------------------------------
(* find_exercise_numbers: the text of a span *)

\* str.isspace: the characters str.strip() removes and \s matches in a str
\* pattern: tab to carriage return, the separators 28-31, space, NEL, NBSP and
\* the Unicode spaces
IsSpace(c) ==
    \/ c \in 9..13
    \/ c \in 28..32
    \/ c \in {133, 160, 5760, 8232, 8233, 8239, 8287, 12288}
    \/ c \in 8192..8202

\* the digit zero of every run of decimal digits (category Nd, Unicode 14): each
\* run is ten consecutive characters, zero to nine
DecimalZeros ==
    {48, 1632, 1776, 1984, 2406, 2534, 2662, 2790, 2918, 3046, 3174, 3302, 3430,
     3558, 3664, 3792, 3872, 4160, 4240, 6112, 6160, 6470, 6608, 6784, 6800, 6992,
     7088, 7232, 7248, 42528, 43216, 43264, 43472, 43504, 43600, 44016, 65296,
     66720, 68912, 69734, 69872, 69942, 70096, 70384, 70736, 70864, 71248, 71360,
     71472, 71904, 72016, 72784, 73040, 73120, 92768, 92864, 93008, 120782,
     120792, 120802, 120812, 120822, 123200, 123632, 125264, 130032}

\* \d in a str pattern: any decimal digit, not only 0-9
IsDigit(c) ==
    \/ c \in 48..57
    \/ c >= 1632 /\ \E z \in DecimalZeros : z <= c /\ c <= z + 9

\* the value int() gives the digit
DigitVal(c) ==
    IF c \in 48..57 THEN c - 48
    ELSE c - (CHOOSE z \in DecimalZeros : z <= c /\ c <= z + 9)

\* re.IGNORECASE on a str pattern: the lower-case letter a character is matched
\* as.  Besides A-Z, dotted and dotless i (304, 305) match i, long s (383)
\* matches s and the Kelvin sign (8490) matches k
Lower(c) ==
    IF c \in 65..90 THEN c + 32
    ELSE IF c \in {304, 305} THEN 105
    ELSE IF c = 383 THEN 115
    ELSE IF c = 8490 THEN 107
    ELSE c

\* the number of whitespace characters t starts with
LeadingSpaces(t) ==
    CHOOSE n \in 0..Len(t) :
        /\ n = Len(t) \/ ~IsSpace(t[n + 1])
        /\ \A k \in 1..n : IsSpace(t[k])

\* the number of whitespace characters t ends with
TrailingSpaces(t) ==
    CHOOSE n \in 0..Len(t) :
        /\ n = Len(t) \/ ~IsSpace(t[Len(t) - n])
        /\ \A k \in (Len(t) - n + 1)..Len(t) : IsSpace(t[k])

lstrip(t) == SubSeq(t, LeadingSpaces(t) + 1, Len(t))

rstrip(t) == SubSeq(t, 1, Len(t) - TrailingSpaces(t))

\* text = span["text"].strip()
strip(t) == rstrip(lstrip(t))

\* the alternatives of (No\.|Number|Exercise), lower-cased: "no.", "number",
\* "exercise"
LabelPrefixes ==
    { <<110, 111, 46>>,
      <<110, 117, 109, 98, 101, 114>>,
      <<101, 120, 101, 114, 99, 105, 115, 101>> }

\* the literal "." of No\. matches itself only; Lower leaves it alone
StartsWithIgnoreCase(t, p) ==
    /\ Len(t) >= Len(p)
    /\ \A k \in 1..Len(p) : Lower(t[k]) = p[k]

\* re.match(r"(No\.|Number|Exercise)\s*\d+", text, re.IGNORECASE): anchored at
\* the start, a prefix, any whitespace, then at least one digit
re_match(t) ==
    \E p \in LabelPrefixes :
        /\ StartsWithIgnoreCase(t, p)
        /\ LET rest == lstrip(SubSeq(t, Len(p) + 1, Len(t)))
           IN  rest # <<>> /\ IsDigit(Head(rest))

\* the number of characters of t before its first digit
LeadingNonDigits(t) ==
    CHOOSE n \in 0..Len(t) :
        /\ n = Len(t) \/ IsDigit(t[n + 1])
        /\ \A k \in 1..n : ~IsDigit(t[k])

\* the number of digits t starts with
LeadingDigits(t) ==
    CHOOSE n \in 0..Len(t) :
        /\ n = Len(t) \/ ~IsDigit(t[n + 1])
        /\ \A k \in 1..n : IsDigit(t[k])

\* t from its first digit on
DropNonDigits(t) == SubSeq(t, LeadingNonDigits(t) + 1, Len(t))

\* the digits t starts with
TakeDigits(t) == SubSeq(t, 1, LeadingDigits(t))

\* re.search(r"\d+", text).group(): the leftmost maximal run of digits
re_search_digits(t) == TakeDigits(DropNonDigits(t))

\* sys.int_info.default_max_str_digits: the most digits int() converts from a
\* string under the interpreter's default setting
default_max_str_digits == 4300

\* the exceptions the program ends with
ValueError == "ValueError"

NameError == "NameError"

NoException == ""

\* int() of a string of more digits raises ValueError ("Exceeds the limit (4300
\* digits) for integer string conversion"); leading zeros count.  So does int()
\* of the empty string ("invalid literal"), which no match of \d+ is
int_raises(d) == d = <<>> \/ Len(d) > default_max_str_digits

\* the number a string of decimal digits denotes
RECURSIVE DigitsValue(_)
DigitsValue(d) ==
    IF d = <<>> THEN 0
    ELSE 10 * DigitsValue(SubSeq(d, 1, Len(d) - 1)) + DigitVal(d[Len(d)])

\* int() of a string of decimal digits: the number, or ValueError
int(d) == IF int_raises(d) THEN ValueError ELSE DigitsValue(d)

\* int() of a float, given in quarters: the fraction is cut off, towards zero
int_float(y) == IF y >= 0 THEN y \div 4 ELSE -((-y) \div 4)

\* a position of whole units and q quarters, in quarters
Quarters(whole, q) == 4 * whole + q

ScaleFactor == 3

IsCandidate(span) ==
    LET text == strip(span.text)
    IN  re_match(text) /\ re_search_digits(text) # <<>>

\* the span matches and int() raises on its digits: the dict is not built
CandidateRaises(span) ==
    LET text         == strip(span.text)
        exercise_num == re_search_digits(text)
    IN  re_match(text) /\ exercise_num # <<>> /\ int_raises(exercise_num)

\* the dict appended for a matching span; y_position = bbox[1] * scale_factor,
\* in quarters of a pixel as y0 is in quarters of a point.  ValueError when
\* int() raises
Candidate(span) ==
    LET text         == strip(span.text)
        exercise_num == re_search_digits(text)
    IN  IF int_raises(exercise_num) THEN ValueError
        ELSE [number     |-> int(exercise_num),
              y_position |-> span.y0 * ScaleFactor,
              text       |-> text]

\* some span of the text layer makes the loop raise
Raises(spans) == \E k \in 1..Len(spans) : CandidateRaises(spans[k])

\* the loop over blocks, lines and spans, none of which raises: the dicts of
\* the matching spans, in traversal order
RECURSIVE CandidatesFrom(_)
CandidatesFrom(spans) ==
    IF spans = <<>> THEN <<>>
    ELSE (IF IsCandidate(Head(spans)) THEN <<Candidate(Head(spans))>> ELSE <<>>)
         \o CandidatesFrom(Tail(spans))

\* the loop over blocks, lines and spans: the list it builds, or ValueError when
\* a span raises, which ends the loop and the function
Candidates(spans) == IF Raises(spans) THEN ValueError ELSE CandidatesFrom(spans)

\* list.sort(key=y_position) is stable: x goes after every element with a key
\* less than or equal to its own
RECURSIVE InsertByY(_, _)
InsertByY(s, x) ==
    IF s = <<>> THEN <<x>>
    ELSE IF Head(s).y_position <= x.y_position
         THEN <<Head(s)>> \o InsertByY(Tail(s), x)
         ELSE <<x>> \o s

\* a locator that leaves the candidates in traversal order
SortByYOmitted(s) == s

RECURSIVE SortByY(_)
SortByY(s) ==
    IF s = <<>> THEN <<>>
    ELSE InsertByY(SortByY(SubSeq(s, 1, Len(s) - 1)), s[Len(s)])

\* the seen_numbers loop: the first occurrence of each number is kept
RECURSIVE UniqueExercises(_, _)
UniqueExercises(s, seen_numbers) ==
    IF s = <<>> THEN <<>>
    ELSE IF Head(s).number \notin seen_numbers
         THEN <<Head(s)>> \o UniqueExercises(Tail(s), seen_numbers \cup {Head(s).number})
         ELSE UniqueExercises(Tail(s), seen_numbers)

\* the list returned, or ValueError: nothing in the function catches it
find_exercise_numbers(spans) ==
    IF Raises(spans) THEN ValueError
    ELSE UniqueExercises(SortByY(CandidatesFrom(spans)), {})

-----------------------------------------------------------------------------
(* extract_individual_exercises: the boundaries of exercise i (0-based) *)

\* a resolver that starts every exercise above its own label
TopAtLabel(i, exercise_y, exercise_bottom) == Max(0, exercise_y - 150)

\* top: the first exercise starts 150 rows above its label, clamped to the
\* page; a later one starts 30 rows after the previous exercise_bottom
Top(i, exercise_y, exercise_bottom) ==
    IF i = 0 THEN Max(0, exercise_y - 150) ELSE exercise_bottom + 30

\* a resolver that also takes the staff regions at the two label rows
StaffBetweenInclusive(staff_regions, exercise_y, next_exercise_y) ==
    {s \in staff_regions : exercise_y <= s /\ s <= next_exercise_y}

\* staff_between = [s for s in staff_regions if exercise_y < s < next_exercise_y]
StaffBetween(staff_regions, exercise_y, next_exercise_y) ==
    {s \in staff_regions : exercise_y < s /\ s < next_exercise_y}

\* bottom as found before the minimum height is enforced
BottomFound(i, positions, staff_regions, page_height) ==
    IF i = Len(positions) - 1 THEN page_height
    ELSE LET exercise_y      == int_float(positions[i + 1].y_position)
             next_exercise_y == int_float(positions[i + 2].y_position)
             staff_between   == StaffBetween(staff_regions, exercise_y, next_exercise_y)
         IN  IF staff_between # {}
             THEN Min(next_exercise_y - 80, SetMax(staff_between) + 100)
             ELSE next_exercise_y - 80

\* a resolver without the minimum height
EnsureMinimumHeightOmitted(top, bottom) == bottom

\* if bottom - top < 200: bottom = top + 200
EnsureMinimumHeight(top, bottom) ==
    IF bottom - top < 200 THEN top + 200 ELSE bottom

\* a resolver that pads every exercise upwards like the first
TopPaddingFirst(i) == 5

TopPadding(i) == IF i = 0 THEN 5 ELSE -50

BottomPadding == 70

LeftPadding == 40

RightPadding == 40

CropTop(i, top) == Max(0, top - TopPadding(i))

CropBottom(bottom, page_height) == Min(page_height, bottom + BottomPadding)

CropLeft == Max(0, LeftPadding)

CropRight(page_width) == Min(page_width, page_width - RightPadding)

\* the locals of iteration i of the loop
ExerciseCrop(i, positions, staff_regions, page_height, page_width, exercise_bottom) ==
    LET top    == Top(i, int_float(positions[i + 1].y_position), exercise_bottom)
        found  == BottomFound(i, positions, staff_regions, page_height)
        bottom == EnsureMinimumHeight(top, found)
    IN  [number       |-> positions[i + 1].number,
         top          |-> top,
         bottom_found |-> found,
         bottom       |-> bottom,
         crop_top     |-> CropTop(i, top),
         crop_bottom  |-> CropBottom(bottom, page_height),
         crop_left    |-> CropLeft,
         crop_right   |-> CropRight(page_width)]

\* the loop from iteration i on; exercise_bottom is carried from one iteration
\* to the next
RECURSIVE ExerciseCrops(_, _, _, _, _, _)
ExerciseCrops(i, positions, staff_regions, page_height, page_width, exercise_bottom) ==
    IF i = Len(positions) THEN <<>>
    ELSE LET c == ExerciseCrop(i, positions, staff_regions, page_height,
                               page_width, exercise_bottom)
         IN  <<c>> \o ExerciseCrops(i + 1, positions, staff_regions, page_height,
                                    page_width, c.bottom)

-----------------------------------------------------------------------------
(* extract_exercises_visual: grouping the peaks *)

\* the loop "for i in range(1, len(peaks))" from index i (0-based) on, followed
\* by the final append of current_group
RECURSIVE GroupPeaks(_, _, _, _)
GroupPeaks(peaks, i, current_group, exercise_groups) ==
    IF i = Len(peaks) THEN Append(exercise_groups, current_group)
    ELSE IF peaks[i + 1] - peaks[i] < 200
         THEN GroupPeaks(peaks, i + 1, Append(current_group, peaks[i + 1]), exercise_groups)
         ELSE GroupPeaks(peaks, i + 1, <<peaks[i + 1]>>,
                         Append(exercise_groups, current_group))

ExerciseGroups(peaks) ==
    IF Len(peaks) > 0 THEN GroupPeaks(peaks, 1, <<peaks[1]>>, <<>>) ELSE <<>>

VisualTop(group) == Max(0, SetMin(SeqRange(group)) - 100)

VisualBottom(group, page_height) == Min(page_height, SetMax(SeqRange(group)) + 100)

\* the names bound at module level when extract_exercises_visual runs: the
\* imports of lines 1-7 and the functions; "from scipy.ndimage import
\* gaussian_filter1d" is a statement of detect_staff_regions and binds a local
ModuleGlobals ==
    {"fitz", "Image", "ImageDraw", "os", "re", "np", "cv2", "find_peaks",
     "extract_exercises_from_pdf", "find_exercise_numbers", "detect_staff_regions",
     "extract_individual_exercises", "find_closest_staff_region",
     "add_white_padding", "clean_exercise_image", "extract_exercises_visual"}

-----------------------------------------------------------------------------
(* The output directory and standard output *)

\* exercise_<n>.png has no page in its name (page 0 here);
\* exercise_visual_<n>_page_<page>.png has both
ExerciseFile(number) == [kind |-> "exercise", n |-> number, page |-> 0]

VisualFile(i, pn) == [kind |-> "exercise_visual", n |-> i + 1, page |-> pn + 1]

NoFile == [kind |-> "", n |-> 0, page |-> 0]

\* the pixels of an image: the page and the rows and columns sliced from it
Image(pn, top, bottom, left, right) ==
    [page |-> pn, rows |-> <<top, bottom>>, cols |-> <<left, right>>]

\* img.save(filepath): the file is created, or replaced when it exists
Save(fs, name, image) ==
    [f \in DOMAIN fs \cup {name} |-> IF f = name THEN image ELSE fs[f]]

\* a printed line, with the page whose pass printed it
Line(text, pn, name) == [line |-> text, page |-> pn, file |-> name]

RECURSIVE SaveExercises(_, _, _)
SaveExercises(fs, cs, pn) ==
    IF cs = <<>> THEN fs
    ELSE LET c == Head(cs)
         IN  SaveExercises(
                 Save(fs, ExerciseFile(c.number),
                      Image(pn, c.crop_top, c.crop_bottom, c.crop_left, c.crop_right)),
                 Tail(cs), pn)

SavedLines(cs, pn) ==
    [k \in 1..Len(cs) |-> Line("Saved", pn, ExerciseFile(cs[k].number))]

RECURSIVE SaveVisual(_, _, _, _, _)
SaveVisual(fs, groups, i, pn, shape) ==
    IF i = Len(groups) THEN fs
    ELSE SaveVisual(
             Save(fs, VisualFile(i, pn),
                  Image(pn, VisualTop(groups[i + 1]),
                        VisualBottom(groups[i + 1], shape[1]), 0, shape[2])),
             groups, i + 1, pn, shape)

SavedVisualLines(groups, pn) ==
    [k \in 1..Len(groups) |-> Line("Saved (visual)", pn, VisualFile(k - 1, pn))]

-----------------------------------------------------------------------------
(* The pages the model reads: texts, label rows (in points), detector output *)

\* "No. 1"
TextNo1 == <<78, 111, 46, 32, 49>>

\* "no.<tab>01<newline>": number 1
TextNo01 == <<110, 111, 46, 9, 48, 49, 10>>

\* "<NBSP>EXERCI<long s>E<em space>2 ": number 2
TextExercise2 ==
    <<160, 69, 88, 69, 82, 67, 73, 383, 69, 8195, 50, 32>>

\* "Number 2.1": number 2
TextNumber2 == <<78, 117, 109, 98, 101, 114, 32, 50, 46, 49>>

\* "No. <Arabic-Indic digit three>": number 3
TextNoArabic3 == <<78, 111, 46, 32, 1635>>

\* "No. 11...1" with one digit more than int() converts: the span matches and
\* int() raises
TextNoLong ==
    [k \in 1..(4 + default_max_str_digits + 1) |-> IF k <= 4 THEN TextNo1[k] ELSE 49]

\* "Page 2": no label
TextPage2 == <<80, 97, 103, 101, 32, 50>>

\* "No. k", for k in 1..9
LabelText(k) == <<78, 111, 46, 32, 48 + k>>

\* a span: its text and bbox[1], in quarters of a point
Span(text, y0) == [text |-> text, y0 |-> y0]

SeqsUpTo(S, n) == UNION {[1..k -> S] : k \in 0..n}

Page(shape, spans, staff, peaks) ==
    [shape |-> shape, spans |-> spans, staff |-> staff, peaks |-> peaks]

NoPage == Page(<<0, 0>>, <<>>, {}, <<>>)

\* every label lies on the page, and so does every detected row
OnPage(p) ==
    /\ \A k \in 1..Len(p.spans) :
          int_float(p.spans[k].y0 * ScaleFactor) < p.shape[1]
    /\ \A s \in p.staff : s < p.shape[1]
    /\ \A k \in 1..Len(p.peaks) : p.peaks[k] < p.shape[1]

\* pages of a whole document: few spans, both fallbacks
DocTexts == {TextNo1, TextExercise2, TextPage2}

DocSpans ==
    {Span(t, y0) : t \in DocTexts, y0 \in {Quarters(50, 0), Quarters(200, 1)}}
        \cup {Span(TextNoLong, Quarters(50, 0))}

DocPeaks == {<<>>, <<300>>, <<300, 450>>, <<300, 500>>, <<50, 300, 460, 660>>}

DocPages ==
    {p \in {Page(shape, spans, staff, peaks) :
                shape \in {<<700, 500>>, <<1000, 800>>},
                spans \in SeqsUpTo(DocSpans, MaxDocSpans),
                staff \in {{}, {400}},
                peaks \in DocPeaks} : OnPage(p)}

\* text layers for the label locator: matching and other spans, in any order,
\* with repeated numbers and repeated rows
LocatorTexts ==
    {TextNo1, TextNo01, TextExercise2, TextNumber2, TextNoArabic3, TextPage2}

LocatorSpans ==
    {Span(t, y0) : t \in LocatorTexts, y0 \in {Quarters(50, 1), Quarters(200, 0)}}
        \cup {Span(TextNoLong, Quarters(50, 1))}

LocatorPages ==
    {Page(<<1000, 800>>, spans, {}, <<>>) : spans \in SeqsUpTo(LocatorSpans, MaxSpans)}

\* labelled pages for the boundary resolver: labels No. 1 .. No. n down the page,
\* at whole and fractional points
ResolverRows ==
    {Quarters(0, 0), Quarters(20, 0), Quarters(50, 2), Quarters(100, 1),
     Quarters(110, 0), Quarters(200, 0), Quarters(300, 3), Quarters(320, 0)}

ResolverStaff == {150, 300, 400, 450, 700}

ResolverShapes == {<<700, 500>>, <<1000, 800>>, <<1200, 900>>}

ResolverSpans ==
    UNION {{[k \in 1..n |-> Span(LabelText(k), ys[k])] :
                ys \in {f \in [1..n -> ResolverRows] :
                            \A k \in 1..(n - 1) : f[k] <= f[k + 1]}} :
           n \in 1..MaxLabels}

ResolverPages ==
    {p \in {Page(shape, spans, staff, <<>>) :
                shape \in ResolverShapes,
                spans \in ResolverSpans,
                staff \in SUBSET ResolverStaff} : OnPage(p)}

-----------------------------------------------------------------------------
(* extract_exercises_from_pdf *)

NoFiles == [f \in {} |-> NoFile]

\* after os.makedirs and fitz.open: a document of doc_len pages, nothing read
Init ==
    /\ doc_len \in 1..MaxPages
    /\ page_num = 0
    /\ pc = "load"
    /\ page = NoPage
    /\ exercise_positions = <<>>
    /\ crops = <<>>
    /\ files = NoFiles
    /\ out = <<>>
    /\ exception = NoException

\* page = doc[page_num] ... img_array = np.array(img)
LoadPage ==
    /\ pc = "load"
    /\ \E p \in DocPages : page' = p
    /\ pc' = "find"
    /\ UNCHANGED <<doc_len, page_num, exercise_positions, crops, files, out, exception>>

\* exercise_positions = find_exercise_numbers(page, scale_factor=3.0).  A
\* ValueError of int() leaves the function and extract_exercises_from_pdf:
\* nothing catches it and exercise_positions is not assigned
FindExerciseNumbers ==
    /\ pc = "find"
    /\ IF Raises(page.spans)
       THEN /\ exercise_positions' = exercise_positions
            /\ exception' = ValueError
            /\ pc' = "raised"
       ELSE /\ exercise_positions' = find_exercise_numbers(page.spans)
            /\ exception' = exception
            /\ pc' = "dispatch"
    /\ UNCHANGED <<doc_len, page_num, page, crops, files, out>>

\* if exercise_positions: detect_staff_regions, extract_individual_exercises
ExtractIndividual ==
    /\ pc = "dispatch"
    /\ exercise_positions # <<>>
    /\ LET cs == ExerciseCrops(0, exercise_positions, page.staff,
                               page.shape[1], page.shape[2], 0)
       IN  /\ crops' = cs
           /\ files' = SaveExercises(files, cs, page_num)
           /\ out' = out \o SavedLines(cs, page_num)
    /\ pc' = "next"
    /\ UNCHANGED <<doc_len, page_num, page, exercise_positions, exception>>

\* else: print, extract_exercises_visual.  The call of gaussian_filter1d raises
\* NameError unless the name is bound at module level; nothing catches it in
\* extract_exercises_from_pdf
ExtractVisual ==
    /\ pc = "dispatch"
    /\ exercise_positions = <<>>
    /\ IF "gaussian_filter1d" \in ModuleGlobals
       THEN LET groups == ExerciseGroups(page.peaks)
            IN  /\ files' = SaveVisual(files, groups, 0, page_num, page.shape)
                /\ out' = Append(out, Line("No exercise numbers found", page_num, NoFile))
                            \o SavedVisualLines(groups, page_num)
                /\ exception' = exception
                /\ pc' = "next"
       ELSE /\ files' = files
            /\ out' = Append(out, Line("No exercise numbers found", page_num, NoFile))
            /\ exception' = NameError
            /\ pc' = "raised"
    /\ UNCHANGED <<doc_len, page_num, page, exercise_positions, crops>>

\* the for loop takes the next page; the locals of the last pass are dropped
NextPage ==
    /\ pc = "next"
    /\ page_num + 1 < doc_len
    /\ page_num' = page_num + 1
    /\ pc' = "load"
    /\ page' = NoPage
    /\ exercise_positions' = <<>>
    /\ crops' = <<>>
    /\ UNCHANGED <<doc_len, files, out, exception>>

\* the loop is exhausted: doc.close() and the closing print
Close ==
    /\ pc = "next"
    /\ page_num + 1 = doc_len
    /\ pc' = "done"
    /\ out' = Append(out, Line("Extraction complete", page_num, NoFile))
    /\ UNCHANGED <<doc_len, page_num, page, exercise_positions, crops, files, exception>>

Next ==
    \/ LoadPage
    \/ FindExerciseNumbers
    \/ ExtractIndividual
    \/ ExtractVisual
    \/ NextPage
    \/ Close

Spec == Init /\ [][Next]_vars

\* the label locator alone, on one page of any text layer
InitLocator ==
    /\ doc_len = 1
    /\ page_num = 0
    /\ pc = "find"
    /\ page \in LocatorPages
    /\ exercise_positions = <<>>
    /\ crops = <<>>
    /\ files = NoFiles
    /\ out = <<>>
    /\ exception = NoException

NextLocator == FindExerciseNumbers

SpecLocator == InitLocator /\ [][NextLocator]_vars

\* the boundary resolver alone, on one labelled page whose labels are located
InitResolver ==
    /\ doc_len = 1
    /\ page_num = 0
    /\ pc = "dispatch"
    /\ page \in ResolverPages
    /\ exercise_positions = find_exercise_numbers(page.spans)
    /\ crops = <<>>
    /\ files = NoFiles
    /\ out = <<>>
    /\ exception = NoException

NextResolver == ExtractIndividual

SpecResolver == InitResolver /\ [][NextResolver]_vars

-----------------------------------------------------------------------------
(* Properties *)

PageHeight == page.shape[1]

PageWidth == page.shape[2]

\* the pixel row of the k-th label: its y_position without the fraction
LabelRow(k) == exercise_positions[k].y_position \div 4

\* the boundary resolver has run on the current page
Resolved == pc = "next" /\ exercise_positions # <<>>

\* the pass over the current page has ended, by returning or by raising
PassEnded == pc \in {"next", "done", "raised"}

\* the pass over the current page has ended and went through the visual
\* fallback: find_exercise_numbers returned the empty list
FallbackEnded == PassEnded /\ exception # ValueError /\ exercise_positions = <<>>

\* the files the pass over page pn saved, as printed
SavedBy(pn) == {out[k].file : k \in {j \in 1..Len(out) : out[j].page = pn /\ out[j].file # NoFile}}

\* C1: on a labelled page the resolver yields one crop per label, the tops
\* strictly ascending in label order, each crop at least 200 rows high
C1_OneCropPerLabelAscendingMinHeight ==
    Resolved =>
        /\ Len(crops) = Len(exercise_positions)
        /\ \A k \in 1..Len(crops) : crops[k].number = exercise_positions[k].number
        /\ \A k \in 1..(Len(crops) - 1) : crops[k].top < crops[k + 1].top
        /\ \A k \in 1..Len(crops) : crops[k].bottom - crops[k].top >= 200

\* three labels, the minimum height enforced on one crop and not on another
C1_Witness ==
    /\ Resolved
    /\ Len(crops) = 3
    /\ \E k \in 1..Len(crops) : crops[k].bottom_found - crops[k].top < 200
    /\ \E k \in 1..Len(crops) : crops[k].bottom_found - crops[k].top > 200

\* C2, as stated: the bottom of crop i before padding is the top of crop i+1
C2_BottomIsNextTop ==
    Resolved =>
        \A k \in 1..(Len(crops) - 1) : crops[k].bottom = crops[k + 1].top

\* C2, amended: the top of crop i+1 is the bottom of crop i before padding plus
\* the buffer of 30 rows, so consecutive crops never overlap before padding and
\* leave exactly 30 rows between them
C2_NextTopIsBottomPlusBuffer ==
    Resolved =>
        \A k \in 1..(Len(crops) - 1) : crops[k + 1].top = crops[k].bottom + 30

\* two or more labels, the second label less than 30 rows below the first bottom
C2_Witness ==
    /\ Resolved
    /\ Len(crops) >= 2
    /\ crops[2].top > LabelRow(2) - 150

\* C3: every crop lies on the page and is not empty, before and after padding,
\* and the last crop ends at the page bottom
C3_CropsOnPageNotEmpty ==
    Resolved =>
        /\ \A k \in 1..Len(crops) :
              /\ 0 <= crops[k].top
              /\ crops[k].top < crops[k].bottom
              /\ crops[k].bottom <= PageHeight
              /\ 0 <= crops[k].crop_left
              /\ crops[k].crop_left < crops[k].crop_right
              /\ crops[k].crop_right <= PageWidth
              /\ crops[k].crop_top < crops[k].crop_bottom
        /\ crops[Len(crops)].bottom = PageHeight

\* C4: the pass over a page saves at least one file: exercise_<n> files when
\* there are labels, visual files when there are none but peaks, and exactly
\* one whole-page file when there are neither
C4_EveryPageEmitsAFile ==
    PassEnded =>
        LET saved == SavedBy(page_num)
        IN  /\ saved # {}
            /\ exercise_positions # <<>> => \A f \in saved : f.kind = "exercise"
            /\ exercise_positions = <<>> /\ page.peaks # <<>> =>
                   \A f \in saved : f.kind = "exercise_visual"
            /\ exercise_positions = <<>> /\ page.peaks = <<>> =>
                   /\ Cardinality(saved) = 1
                   /\ \A f \in saved : f.kind = "page"

\* C5: a page without labels is no error: the fallback returns and the loop
\* goes on, so the pass over a page on which the label locator returned the
\* empty list never ends in an exception
C5_FallbackNeverRaises == ~(pc = "raised" /\ exception = NameError)

\* a span of the text layer that is a label candidate, and what it yields
Matching == {m \in 1..Len(page.spans) : IsCandidate(page.spans[m])}

NumberOf(m) == Candidate(page.spans[m]).number

RowOf(m) == Candidate(page.spans[m]).y_position

\* C6: the located labels are sorted ascending by y_position, hold each number
\* at most once, hold every number of a matching span, and hold for each number
\* the lowest y_position among the matching spans with that number
C6_LabelsSortedUniqueCompleteLowest ==
    pc = "dispatch" =>
        LET ep == exercise_positions
        IN  /\ \A j, k \in 1..Len(ep) : j < k => ep[j].y_position <= ep[k].y_position
            /\ \A j, k \in 1..Len(ep) : j # k => ep[j].number # ep[k].number
            /\ \A m \in Matching : \E k \in 1..Len(ep) : ep[k].number = NumberOf(m)
            /\ \A k \in 1..Len(ep) :
                  /\ \E m \in Matching :
                        NumberOf(m) = ep[k].number /\ RowOf(m) = ep[k].y_position
                  /\ \A m \in Matching :
                        NumberOf(m) = ep[k].number => ep[k].y_position <= RowOf(m)

\* a number met twice, its lower occurrence later in the text layer, next to a
\* span that does not match
C6_Witness ==
    /\ pc = "dispatch"
    /\ Len(exercise_positions) >= 1
    /\ \E a, b \in Matching : a < b /\ NumberOf(a) = NumberOf(b) /\ RowOf(b) < RowOf(a)
    /\ Cardinality(Matching) < Len(page.spans)

\* the group (1, 2, ...) of the k-th peak: one more than the separations of 200
\* rows or more before it
GroupOf(k) == 1 + Cardinality({j \in 1..(k - 1) : page.peaks[j + 1] - page.peaks[j] >= 200})

PeaksOfGroup(g) == {page.peaks[k] : k \in {j \in 1..Len(page.peaks) : GroupOf(j) = g}}

\* C7: the fallback on k >= 1 peaks saves one image per group, numbered 1, 2,
\* ... down the page, peaks less than 200 rows apart sharing a group, each image
\* the rows max(0, min(group) - 100) to min(H, max(group) + 100)
C7_VisualGroupsSaved ==
    FallbackEnded /\ Len(page.peaks) >= 1 =>
        LET n == GroupOf(Len(page.peaks))
        IN  /\ SavedBy(page_num) =
                   {[kind |-> "exercise_visual", n |-> g, page |-> page_num + 1] : g \in 1..n}
            /\ \A g \in 1..n :
                  LET f == [kind |-> "exercise_visual", n |-> g, page |-> page_num + 1]
                  IN  /\ f \in DOMAIN files
                      /\ files[f].rows =
                             <<Max(0, SetMin(PeaksOfGroup(g)) - 100),
                               Min(PageHeight, SetMax(PeaksOfGroup(g)) + 100)>>

\* C8: when all pages are processed every saved exercise has its own file: no
\* file was saved twice, and each file holds the image of the pass that is
\* printed as having saved it
C8_OneFilePerExercise ==
    pc = "done" =>
        /\ \A j, k \in 1..Len(out) :
              j # k /\ out[j].file # NoFile => out[j].file # out[k].file
        /\ \A k \in 1..Len(out) :
              out[k].file # NoFile =>
                  out[k].file \in DOMAIN files /\ files[out[k].file].page = out[k].page

\* C9: for a label that is not the last, the bottom found before the minimum
\* height is min(next - 80, s + 100) for the largest staff region s strictly
\* between the two label rows (the y-positions of the labels as pixel rows),
\* next - 80 when there is none; the staff regions at or outside the two rows
\* change nothing
C9_BottomFromStaffBetween ==
    Resolved =>
        \A k \in 1..(Len(crops) - 1) :
            LET y       == LabelRow(k)
                next    == LabelRow(k + 1)
                between == {s \in page.staff : y < s /\ s < next}
                found   == crops[k].bottom_found
            IN  /\ between = {} => found = next - 80
                /\ between # {} =>
                       \E s \in between :
                           /\ \A t \in between : t <= s
                           /\ found = IF next - 80 <= s + 100 THEN next - 80 ELSE s + 100
                /\ \A others \in SUBSET (page.staff \ between) :
                       BottomFound(k - 1, exercise_positions, page.staff \ others,
                                   PageHeight) = found

\* a staff region between two labels gives the bottom, with another staff
\* region on the row of the upper label
C9_Witness ==
    /\ Resolved
    /\ \E k \in 1..(Len(crops) - 1) :
          LET y    == LabelRow(k)
              next == LabelRow(k + 1)
          IN  /\ y \in page.staff
              /\ \E s \in page.staff : y < s /\ s < next /\ crops[k].bottom_found = s + 100
              /\ crops[k].bottom_found < next - 80

RowsOverlap(a, b) == Max(a.rows[1], b.rows[1]) < Min(a.rows[2], b.rows[2])

\* C10: the rows sliced for exercise i end at min(H, bottom + 70), those for
\* exercise i+1 start at max(0, top + 50), the first never after the second, and
\* no two exercise images of the page share a row
C10_SlicedRowsDisjoint ==
    Resolved =>
        /\ \A k \in 1..(Len(crops) - 1) :
              /\ crops[k].crop_bottom = Min(PageHeight, crops[k].bottom + 70)
              /\ crops[k + 1].crop_top = Max(0, crops[k + 1].top + 50)
              /\ crops[k].crop_bottom <= crops[k + 1].crop_top
        /\ \A f, g \in DOMAIN files :
              f # g /\ files[f].page = page_num /\ files[g].page = page_num =>
                  ~RowsOverlap(files[f], files[g])

\* three exercises, the rows of the first ending above the page bottom
C10_Witness ==
    /\ Resolved
    /\ Len(crops) = 3
    /\ crops[1].crop_bottom < PageHeight
    /\ crops[1].crop_bottom < crops[2].crop_top
    /\ Cardinality(DOMAIN files) = 3

=============================================================================
